---- MODULE Spec2Model ----
(***************************************************************************)
(* Model of the parallel page-level OCR pipeline of extract_with_ocr.py:   *)
(* the module-level progress globals, check_hardware_capabilities,         *)
(* process_page, and extract_text_with_ocr with its ProcessPoolExecutor    *)
(* and as_completed loop.                                                  *)
(*                                                                         *)
(* Time is counted in ticks of 0.1 second.  A text is a sequence of        *)
(* one-character strings.  Page indices are 0-based as in the source;      *)
(* all_text, a Python list, is a 1-based TLA+ sequence.                    *)
(***************************************************************************)
EXTENDS Integers, Sequences, FiniteSets, TLC

\* ---------------------------------------------------------------- bounds
MaxPages == 2
MaxRuns == 2
MaxUnits == 3
MaxBatch == 1
MaxTime == 1

\* ------------------------------------------------------- program constants
\* max(elapsed, 0.1): 0.1 s is one tick
MinElapsedTicks == 1
\* ticks per second, the unit in which 0.1 is one tick
TicksPerSec == 10
\* max(pages_per_sec, 0.001): 0.001 = 1 / InvMinRate
InvMinRate == 1000

VARIABLES
    \* module-level globals (lines 20-22)
    start_time, pages_processed, total_pages,
    \* the wall clock and the machine
    now, units,
    \* the controller: position in extract_text_with_ocr, arguments, locals
    pc, run, doc, openable, batch_arg, batch_size, workers,
    all_text, eta, full_text, sink, exit_status,
    \* the ProcessPoolExecutor and its futures
    poolSize, submitted, taskState, yielded,
    \* history of the current run
    runStart, execCount, writeCount, progressUpdates, arrival, unfinishedAtRaise,
    \* the store of line 109 taken alone (specification SpecRecord)
    rec_buf, rec_first, rec_dup, rec_error, rec_out,
    \* document handles: the controller's (line 88), the one each task opens
    \* (line 48), and the handle each task renders its page through
    ctrlHandle, taskHandle, renderVia,
    \* the finished futures not yet yielded, in the order in which they
    \* finished, and those of them that had finished when as_completed was called
    completion, pre_finished,
    \* the previous run, when this run repeats it: its text, and whether it
    \* consumed its results in page order
    rerun, prevText, prevInOrder

vars == << start_time, pages_processed, total_pages, now, units,
           pc, run, doc, openable, batch_arg, batch_size, workers,
           all_text, eta, full_text, sink, exit_status,
           poolSize, submitted, taskState, yielded,
           runStart, execCount, writeCount, progressUpdates, arrival,
           unfinishedAtRaise, rec_buf, rec_first, rec_dup, rec_error, rec_out,
           ctrlHandle, taskHandle, renderVia, completion, pre_finished,
           rerun, prevText, prevInOrder >>

globals == << start_time, pages_processed, total_pages >>
args == << doc, openable, batch_arg >>
pool == << poolSize, submitted, taskState, yielded >>
rec == << rec_buf, rec_first, rec_dup, rec_error, rec_out >>
handles == << ctrlHandle, taskHandle, renderVia >>
order == << completion, pre_finished >>
prev == << rerun, prevText, prevInOrder >>
history == << runStart, execCount, writeCount, progressUpdates, arrival,
             unfinishedAtRaise, rec >>

\* ------------------------------------------------------------- documents
\* What the rasterizer and the recognizer make of a page: recognizable text,
\* or a page on which rendering or recognition raises.
PageKinds == {"text", "bad"}

RECURSIVE SeqsUpTo(_, _)
SeqsUpTo(S, n) ==
    IF n = 0 THEN {<< >>}
    ELSE LET shorter == SeqsUpTo(S, n - 1)
         IN  shorter \cup {Append(s, x) : s \in {t \in shorter : Len(t) = n - 1}, x \in S}

Docs == SeqsUpTo(PageKinds, MaxPages)

\* every index a future may be created for (one beyond the largest document)
Idx == 0 .. MaxPages

Max(a, b) == IF a >= b THEN a ELSE b

Letter(i) ==
    CASE i = 0 -> "a" [] i = 1 -> "b" [] i = 2 -> "c" [] i = 3 -> "d"
      [] i = 4 -> "e" [] OTHER -> "z"

\* load_page / get_pixmap / image_to_string on page i of document d
PageKind(d, i) == IF i < Len(d) THEN d[i + 1] ELSE "bad"

\* process_page: raises, or returns (page_num, text)
process_page(d, page_num) ==
    LET kind == PageKind(d, page_num)
    IN  [ raised   |-> (kind = "bad"),
          page_num |-> page_num,
          text     |-> IF kind = "text" THEN << Letter(page_num), "\n" >> ELSE << >> ]

\* -------------------------------------------------------------- hardware
\* check_hardware_capabilities: optimal_workers = max(1, cpu_count - 1)
check_hardware_capabilities(cpu_count) == Max(1, cpu_count - 1)

\* ------------------------------------------------------------ the buffer
\* all_text = [""] * total_pages
AllocBuffer(n) == [i \in 1 .. n |-> << >>]

\* the range taken one too far: range(total_pages + 1)
PageArgs_Inclusive(n) == 0 .. n

\* page_args = [(i, ...) for i in range(total_pages)]
PageArgs(n) == 0 .. (n - 1)

\* the store with a 1-based index: all_text[page_num - 1], where -1 is the last slot
Store_OneBased(buf, page_num, page_text) ==
    [buf EXCEPT ![IF page_num = 0 THEN Len(buf) ELSE page_num] = page_text]

\* the store indexed by the running count: all_text[pages_processed]
Store_ByCount(buf, page_num, page_text) ==
    IF pages_processed < Len(buf)
    THEN [buf EXCEPT ![pages_processed + 1] = page_text]
    ELSE buf

\* all_text[page_num] = page_text
Store(buf, page_num, page_text) == [buf EXCEPT ![page_num + 1] = page_text]

Separator == << "\n", "\n" >>

\* "\n\n".join(all_text)
RECURSIVE Join(_)
Join(texts) ==
    IF Len(texts) = 0 THEN << >>
    ELSE IF Len(texts) = 1 THEN texts[1]
    ELSE texts[1] \o Separator \o Join(Tail(texts))

\* ------------------------------------------------------------- progress
NoEta == [num |-> 0, den |-> 0]

\* lines 114-116, eta in seconds as the fraction num / den:
\*   elapsed       = now - start_time
\*   pages_per_sec = processed / max(elapsed, 0.1)
\*   eta           = (total - processed) / max(pages_per_sec, 0.001)
Eta(processed, total, t, t0) ==
    LET elapsed == Max(t - t0, MinElapsedTicks)
        \* pages_per_sec = processed * TicksPerSec / elapsed
        slow == processed * TicksPerSec * InvMinRate < elapsed
    IN  IF slow
        THEN [num |-> (total - processed) * InvMinRate, den |-> 1]
        ELSE [num |-> (total - processed) * elapsed, den |-> processed * TicksPerSec]

\* -------------------------------------------------------------- handles
\* A handle is "none" (not opened), "open", "ended" or "released".  Neither
\* function calls close(): a handle is released when the local variable that
\* holds it dies (the function returns and the reference count drops to zero)
\* or when the process that holds it exits.  "ended" is the handle of a task
\* that raised: the traceback may keep the frame, and with it the handle,
\* alive in the worker, so all that is known is that no task uses it any more
\* and that it is released at the latest when the worker exits.
NoHandle == << "none" >>
CtrlHandleId == << "ctrl" >>

\* a task rendering through the handle the controller opened at line 88
HandleFor_Shared(i) == CtrlHandleId

\* doc = fitz.open(pdf_path) in process_page (line 48): the task's own handle
HandleFor(i) == << "task", i >>

\* the worker processes have exited: what they still held is released
WorkersExited(h) ==
    [i \in Idx |-> IF h[i] \in {"open", "ended"} THEN "released" ELSE h[i]]

\* ------------------------------------------------------------- the pool
Running == {i \in Idx : taskState[i] = "running"}
Finished(i) == taskState[i] \in {"ok", "failed"}

\* a pool that lets one more task in than it has workers
FreeWorker_OneMore == Cardinality(Running) <= poolSize

\* a worker process is idle
FreeWorker == Cardinality(Running) < poolSize

\* a pool that hands a failed work item to a worker again
Runnable_Retry(i) == taskState[i] \in {"pending", "failed"}

\* a work item a worker may take from the call queue
Runnable(i) == taskState[i] = "pending"

\* shutdown(wait=False): the with block is left while work items remain
ShutdownComplete_NoWait == TRUE

\* Executor.__exit__ -> shutdown(wait=True): returns once no work item is left
ShutdownComplete == \A i \in Idx : taskState[i] \in {"none", "ok", "failed"}

\* a sequence without its element x
RECURSIVE Without(_, _)
Without(seq, x) ==
    IF seq = << >> THEN << >>
    ELSE IF Head(seq) = x THEN Without(Tail(seq), x)
    ELSE << Head(seq) >> \o Without(Tail(seq), x)

\* the future as_completed may yield next: first, in no particular order,
\* those that had finished when it was called; then the others, each as it
\* completes
YieldsNext(i) ==
    /\ Finished(i)
    /\ ~yielded[i]
    /\ IF pre_finished # {}
       THEN i \in pre_finished
       ELSE completion # << >> /\ i = Head(completion)

\* a loop that is left after its first result
LoopExhausted_AfterFirst == \E i \in submitted : yielded[i]

\* a loop that runs until the global count reaches the page count
LoopExhausted_ByCount == pages_processed = total_pages

\* as_completed(futures) has nothing more to yield
LoopExhausted == \A i \in submitted : yielded[i]

Terminal == {"Done", "Failed"}

\* ----------------------------------------------------------------- Init
MainInit ==
    /\ start_time = 0
    /\ pages_processed = 0
    /\ total_pages = 0
    /\ now = 0
    /\ units \in 1 .. MaxUnits
    /\ pc = "Idle"
    /\ run = 0
    /\ doc = << >>
    /\ openable = TRUE
    /\ batch_arg = 0
    /\ batch_size = 0
    /\ workers = 0
    /\ all_text = << >>
    /\ eta = NoEta
    /\ full_text = << >>
    /\ sink = << >>
    /\ exit_status = 0
    /\ poolSize = 0
    /\ submitted = {}
    /\ taskState = [i \in Idx |-> "none"]
    /\ yielded = [i \in Idx |-> FALSE]
    /\ runStart = 0
    /\ execCount = [i \in Idx |-> 0]
    /\ writeCount = [i \in Idx |-> 0]
    /\ progressUpdates = 0
    /\ arrival = << >>
    /\ unfinishedAtRaise = {}
    /\ ctrlHandle = "none"
    /\ taskHandle = [i \in Idx |-> "none"]
    /\ renderVia = [i \in Idx |-> << "none" >>]
    /\ completion = << >>
    /\ pre_finished = {}
    /\ rerun = FALSE
    /\ prevText = << >>
    /\ prevInOrder = FALSE

Init ==
    /\ MainInit
    /\ rec_buf = << >>
    /\ rec_first = [i \in Idx |-> << >>]
    /\ rec_dup = FALSE
    /\ rec_error = "none"
    /\ rec_out = << >>

\* -------------------------------------------------------------- actions
\* the wall clock advances
Tick ==
    /\ now < MaxTime
    /\ now' = now + 1
    /\ UNCHANGED << globals, units, pc, run, args, batch_size, workers, all_text,
                    eta, full_text, sink, exit_status, pool, history,
                    handles, order, prev >>

\* the page indices of a sequence ascend
InPageOrder(seq) == \A k \in 1 .. (Len(seq) - 1) : seq[k] < seq[k + 1]

\* the call repeats the previous one, which returned: same document, same
\* arguments
Repeats(d, op, b) == pc = "Done" /\ d = doc /\ op = openable /\ b = batch_arg

\* extract_text_with_ocr is called (lines 62-85); b = 0 stands for batch_size=None
StartRun(d, op, b) ==
    /\ pc \in {"Idle"} \cup Terminal
    /\ run < MaxRuns
    /\ run' = run + 1
    /\ doc' = d
    /\ openable' = op
    /\ batch_arg' = b
    /\ workers' = check_hardware_capabilities(units)
    /\ batch_size' = IF b = 0 THEN check_hardware_capabilities(units) ELSE b
    /\ pc' = "Opening"
    /\ all_text' = << >>
    /\ eta' = NoEta
    /\ full_text' = << >>
    /\ sink' = << >>
    /\ exit_status' = 0
    /\ poolSize' = 0
    /\ submitted' = {}
    /\ taskState' = [i \in Idx |-> "none"]
    /\ yielded' = [i \in Idx |-> FALSE]
    /\ runStart' = now
    /\ execCount' = [i \in Idx |-> 0]
    /\ writeCount' = [i \in Idx |-> 0]
    /\ progressUpdates' = 0
    /\ arrival' = << >>
    /\ unfinishedAtRaise' = {}
    /\ ctrlHandle' = "none"
    /\ taskHandle' = [i \in Idx |-> "none"]
    /\ renderVia' = [i \in Idx |-> NoHandle]
    /\ completion' = << >>
    /\ pre_finished' = {}
    /\ rerun' = Repeats(d, op, b)
    /\ prevText' = IF Repeats(d, op, b) THEN full_text ELSE << >>
    /\ prevInOrder' = (Repeats(d, op, b) /\ InPageOrder(arrival))
    /\ UNCHANGED << globals, now, units, rec >>

\* an open whose error is swallowed: the run goes on with an empty document
Open_Swallowed ==
    /\ pc = "Opening"
    /\ pc' = "Sizing"
    /\ UNCHANGED << globals, now, units, run, args, batch_size, workers, all_text,
                    eta, full_text, sink, exit_status, pool, history,
                    handles, order, prev >>

\* doc = fitz.open(pdf_path) (line 88); an unreadable file raises out of the call
Open ==
    /\ pc = "Opening"
    /\ IF openable
       THEN pc' = "Sizing" /\ ctrlHandle' = "open" /\ UNCHANGED exit_status
       ELSE pc' = "Failed" /\ exit_status' = 1 /\ UNCHANGED ctrlHandle
    /\ UNCHANGED << globals, now, units, run, args, batch_size, workers, all_text,
                    eta, full_text, sink, pool, history,
                    taskHandle, renderVia, order, prev >>

\* total_pages = len(doc); all_text = [""] * total_pages (lines 89-101)
Sizing ==
    /\ pc = "Sizing"
    /\ total_pages' = Len(doc)
    /\ all_text' = AllocBuffer(Len(doc))
    /\ pc' = "Dispatching"
    /\ UNCHANGED << start_time, pages_processed, now, units, run, args, batch_size,
                    workers, eta, full_text, sink, exit_status, pool, history,
                    handles, order, prev >>

\* ProcessPoolExecutor(max_workers=hardware_config["workers"]) (line 104)
CreatePool ==
    /\ pc = "Dispatching"
    /\ poolSize = 0
    /\ poolSize' = workers
    /\ UNCHANGED << globals, now, units, pc, run, args, batch_size, workers, all_text,
                    eta, full_text, sink, exit_status, submitted, taskState, yielded,
                    history,
                    handles, order, prev >>

\* executor.submit(process_page, args), one call of the comprehension (line 105)
Submit(i) ==
    /\ pc = "Dispatching"
    /\ poolSize > 0
    /\ i \in PageArgs(total_pages) \ submitted
    /\ \A j \in PageArgs(total_pages) : j < i => j \in submitted
    /\ submitted' = submitted \cup {i}
    /\ taskState' = [taskState EXCEPT ![i] = "pending"]
    /\ UNCHANGED << globals, now, units, pc, run, args, batch_size, workers, all_text,
                    eta, full_text, sink, exit_status, poolSize, yielded, history,
                    handles, order, prev >>

\* the comprehension is complete; the controller calls as_completed(futures),
\* which notes the futures that have finished already, and enters the loop
EnterLoop ==
    /\ pc = "Dispatching"
    /\ poolSize > 0
    /\ submitted = PageArgs(total_pages)
    /\ pc' = "Aggregating"
    /\ pre_finished' = {i \in submitted : Finished(i)}
    /\ UNCHANGED << globals, now, units, run, args, batch_size, workers, all_text,
                    eta, full_text, sink, exit_status, pool, history,
                    handles, completion, prev >>

\* a worker process takes a work item and calls process_page
StartTask(i) ==
    /\ pc \in {"Dispatching", "Aggregating", "Unwinding"}
    /\ Runnable(i)
    /\ FreeWorker
    /\ taskState' = [taskState EXCEPT ![i] = "running"]
    /\ execCount' = [execCount EXCEPT ![i] = @ + 1]
    /\ taskHandle' = [taskHandle EXCEPT ![i] = "open"]
    /\ renderVia' = [renderVia EXCEPT ![i] = HandleFor(i)]
    /\ UNCHANGED << globals, now, units, pc, run, args, batch_size, workers, all_text,
                    eta, full_text, sink, exit_status, poolSize, submitted, yielded,
                    runStart, writeCount, progressUpdates, arrival, unfinishedAtRaise,
                    rec,
                    ctrlHandle, order, prev >>

\* a task that counts its own page in the global counter
FinishTask_Counting(i) ==
    /\ taskState[i] = "running"
    /\ taskState' = [taskState EXCEPT
                       ![i] = IF process_page(doc, i).raised THEN "failed" ELSE "ok"]
    /\ taskHandle' = [taskHandle EXCEPT
                        ![i] = IF process_page(doc, i).raised THEN "ended" ELSE "released"]
    /\ completion' = IF pc \in {"Dispatching", "Aggregating"}
                      THEN Append(completion, i) ELSE completion
    /\ pages_processed' = pages_processed + 1
    /\ UNCHANGED << start_time, total_pages, now, units, pc, run, args, batch_size,
                    workers, all_text, eta, full_text, sink, exit_status, poolSize,
                    submitted, yielded, history, ctrlHandle, renderVia, pre_finished,
                    prev >>

\* process_page returns or raises in the worker; the future is set.  On
\* return the task's local doc dies and its handle is released.
FinishTask(i) ==
    /\ taskState[i] = "running"
    /\ taskState' = [taskState EXCEPT
                       ![i] = IF process_page(doc, i).raised THEN "failed" ELSE "ok"]
    /\ taskHandle' = [taskHandle EXCEPT
                        ![i] = IF process_page(doc, i).raised THEN "ended" ELSE "released"]
    /\ completion' = IF pc \in {"Dispatching", "Aggregating"}
                      THEN Append(completion, i) ELSE completion
    /\ UNCHANGED << globals, now, units, pc, run, args, batch_size, workers, all_text,
                    eta, full_text, sink, exit_status, poolSize, submitted, yielded,
                    history,
                    ctrlHandle, renderVia, pre_finished, prev >>

\* What sys.stdout.write and sys.stdout.flush (lines 118-120) can do: return,
\* or raise (sys.stdout is None when the process was started with descriptor
\* 1 closed; flush raises BrokenPipeError when the reader of the pipe has
\* gone, OSError when the device is full).  The flush of line 120 is the only
\* explicit one in the run.
StdoutWrites == {"written", "raised"}

\* one iteration of the as_completed loop (lines 107-120): future.result()
\* returns the page's text, or re-raises the task's exception, which leaves
\* the loop and the with block; the progress line is then computed and
\* written inside the loop, with nothing to catch what the write raises
Consume(i) ==
    /\ pc = "Aggregating"
    /\ i \in submitted
    /\ YieldsNext(i)
    /\ yielded' = [yielded EXCEPT ![i] = TRUE]
    /\ arrival' = Append(arrival, i)
    /\ \E out \in StdoutWrites :
         LET res == process_page(doc, i)
             raises == taskState[i] = "failed" \/ out = "raised"
         IN  /\ pre_finished' = IF raises THEN {} ELSE pre_finished \ {i}
             /\ completion' = IF raises THEN << >> ELSE Without(completion, i)
             /\ IF raises
                THEN /\ pc' = "Unwinding"
                     /\ unfinishedAtRaise' = {j \in submitted : ~Finished(j)}
                ELSE UNCHANGED << pc, unfinishedAtRaise >>
             /\ IF taskState[i] = "failed"
                THEN UNCHANGED << pages_processed, all_text, eta, writeCount,
                                  progressUpdates >>
                ELSE /\ all_text' = Store(all_text, res.page_num, res.text)
                     /\ pages_processed' = pages_processed + 1
                     /\ eta' = Eta(pages_processed + 1, total_pages, now, start_time)
                     /\ writeCount' = [writeCount EXCEPT ![i] = @ + 1]
                     /\ progressUpdates' = progressUpdates + 1
    /\ UNCHANGED << start_time, total_pages, now, units, run, args, batch_size, workers,
                    full_text, sink, exit_status, poolSize, submitted, taskState,
                    runStart, execCount, rec,
                    handles, prev >>

\* the loop ends normally; the with block's shutdown(wait=True) returns
ExitLoop ==
    /\ pc = "Aggregating"
    /\ LoopExhausted
    /\ ShutdownComplete
    /\ pc' = "Finalizing"
    /\ taskHandle' = WorkersExited(taskHandle)
    /\ UNCHANGED << globals, now, units, run, args, batch_size, workers, all_text,
                    eta, full_text, sink, exit_status, pool, history,
                    ctrlHandle, renderVia, order, prev >>

\* the exception leaves the with block once shutdown(wait=True) has returned,
\* then extract_text_with_ocr and main: uncaught, the process exits with 1.
\* The exception's traceback refers to the frame of extract_text_with_ocr, so
\* its local doc stays alive, and open, for as long as the exception does.
Unwind ==
    /\ pc = "Unwinding"
    /\ ShutdownComplete
    /\ pc' = "Failed"
    /\ exit_status' = 1
    /\ taskHandle' = WorkersExited(taskHandle)
    /\ UNCHANGED << globals, now, units, run, args, batch_size, workers, all_text,
                    eta, full_text, sink, pool, history,
                    ctrlHandle, renderVia, order, prev >>

\* lines 122-139: join, write the output file, return; the local doc dies
\* with the frame
Finalize ==
    /\ pc = "Finalizing"
    /\ full_text' = Join(all_text)
    /\ sink' = << Join(all_text) >>
    /\ pc' = "Done"
    /\ exit_status' = 0
    /\ ctrlHandle' = "released"
    /\ UNCHANGED << globals, now, units, run, args, batch_size, workers, all_text,
                    eta, pool, history,
                    taskHandle, renderVia, order, prev >>

Next ==
    \/ Tick
    \/ \E op \in BOOLEAN, b \in 0 .. MaxBatch :
         \E d \in (IF op THEN Docs ELSE {<< >>}) : StartRun(d, op, b)
    \/ Open
    \/ Sizing
    \/ CreatePool
    \/ \E i \in Idx : Submit(i)
    \/ EnterLoop
    \/ \E i \in Idx : StartTask(i)
    \/ \E i \in Idx : FinishTask(i)
    \/ \E i \in Idx : Consume(i)
    \/ ExitLoop
    \/ Unwind
    \/ Finalize

Spec == Init /\ [][Next]_vars

\* The controller keeps taking steps, an idle worker takes a queued work item,
\* and a task handed to a worker returns or raises.  Nothing obliges a caller
\* to start another run, nor the clock to reach any value.
Fairness ==
    /\ WF_vars(Open)
    /\ WF_vars(Sizing)
    /\ WF_vars(CreatePool)
    /\ WF_vars(\E i \in Idx : Submit(i))
    /\ WF_vars(EnterLoop)
    /\ WF_vars(\E i \in Idx : StartTask(i))
    /\ WF_vars(\E i \in Idx : FinishTask(i))
    /\ WF_vars(\E i \in Idx : Consume(i))
    /\ WF_vars(ExitLoop)
    /\ WF_vars(Unwind)
    /\ WF_vars(Finalize)

FairSpec == Init /\ [][Next]_vars /\ Fairness

\* ------------------------------------------------- the store, taken alone
\* The statement all_text[page_num] = page_text of line 109 as an operation of
\* its own, applied to any index of a pre-allocated buffer and any text.
\* rec_first remembers the first text recorded at each index, rec_dup whether
\* the last store hit an index that already had one; rec_error is the error
\* the statement raised.  rec_out holds the text the join of line 123 made of
\* the buffer, once it has been applied.
RecordTexts == {<< >>} \cup {<< Letter(i), "\n" >> : i \in Idx}

InitRecord ==
    /\ MainInit
    /\ rec_buf \in {AllocBuffer(n) : n \in 1 .. MaxPages}
    /\ rec_first = [i \in Idx |-> << >>]
    /\ rec_dup = FALSE
    /\ rec_error = "none"
    /\ rec_out = << >>

Record(page_num, page_text) ==
    /\ rec_out = << >>
    /\ page_num \in PageArgs(Len(rec_buf))
    /\ rec_buf' = Store(rec_buf, page_num, page_text)
    /\ rec_first' = IF rec_first[page_num] = << >>
                    THEN [rec_first EXCEPT ![page_num] = << page_text >>]
                    ELSE rec_first
    /\ rec_dup' = (rec_first[page_num] # << >>)
    /\ rec_error' = "none"
    /\ UNCHANGED << globals, now, units, pc, run, args, batch_size, workers, all_text,
                    eta, full_text, sink, exit_status, pool, runStart, execCount,
                    writeCount, progressUpdates, arrival, unfinishedAtRaise, rec_out,
                    handles, order, prev >>

\* full_text = "\n\n".join(all_text) (line 123) applied to the buffer as it is
RecordFinalize ==
    /\ rec_out = << >>
    /\ rec_out' = << Join(rec_buf) >>
    /\ rec_error' = "none"
    /\ UNCHANGED << globals, now, units, pc, run, args, batch_size, workers, all_text,
                    eta, full_text, sink, exit_status, pool, runStart, execCount,
                    writeCount, progressUpdates, arrival, unfinishedAtRaise,
                    rec_buf, rec_first, rec_dup,
                    handles, order, prev >>

NextRecord ==
    \/ \E i \in Idx, t \in RecordTexts : Record(i, t)
    \/ RecordFinalize

SpecRecord == InitRecord /\ [][NextRecord]_vars

\* ================================================================ claims
PagesOf(d) == 0 .. (Len(d) - 1)
HasBadPage(d) == \E k \in PagesOf(d) : d[k + 1] = "bad"

\* the texts of pages i, i+1, ... of d, each but the last followed by a blank line
RECURSIVE TextFrom(_, _)
TextFrom(d, i) ==
    IF i >= Len(d) THEN << >>
    ELSE << Letter(i), "\n" >>
         \o (IF i + 1 < Len(d) THEN << "\n", "\n" >> ELSE << >>)
         \o TextFrom(d, i + 1)

\* C1: whenever extract_text_with_ocr returns, whatever the order in which the
\* page tasks completed, the buffer holds exactly N segments, segment i is the
\* text of page i, and the returned text is these segments in order 0..N-1
\* separated by a blank line.
C1_SegmentsInPageOrder ==
    pc = "Done" =>
        /\ Len(all_text) = Len(doc)
        /\ \A i \in PagesOf(doc) : all_text[i + 1] = << Letter(i), "\n" >>
        /\ full_text = TextFrom(doc, 0)

\* a two-page run returned although page 1 was consumed before page 0
C1_Witness ==
    /\ pc = "Done"
    /\ Len(arrival) >= 2
    /\ arrival[1] > arrival[2]

\* C2: a run on a readable document with a failing page still ends in Done
\* with exit status 0 and N segments, the failing page's segment empty.
C2_PageFailureCaptured ==
    (pc \in Terminal /\ openable /\ HasBadPage(doc)) =>
        /\ pc = "Done"
        /\ exit_status = 0
        /\ Len(all_text) = Len(doc)
        /\ \A k \in PagesOf(doc) : doc[k + 1] = "bad" => all_text[k + 1] = << >>

\* C3: when a page task has failed and its exception has left the loop, every
\* other submitted task, running or still queued at that moment, has been
\* executed to completion, exactly once, by the time the run is over.
C3_SiblingsRunToCompletion ==
    pc = "Failed" =>
        \A i \in submitted : Finished(i) /\ execCount[i] = 1

\* a failed run in which a task that was unfinished when the failure was
\* raised has completed successfully
C3_Witness ==
    /\ pc = "Failed"
    /\ \E i \in unfinishedAtRaise : taskState[i] = "ok"

\* C4: tasks exist only for the page indices in [0, N), no task is executed
\* twice, no buffer slot is written twice; once the loop is entered there is a
\* task for every page; when the run is over every task has been executed
\* exactly once, and when it returns every slot has been written exactly once.
C4_OnceEach ==
    /\ \A i \in submitted : i < Len(doc)
    /\ \A i \in Idx : execCount[i] <= 1 /\ writeCount[i] <= 1
    /\ \A i \in Idx \ submitted : execCount[i] = 0 /\ writeCount[i] = 0
    /\ pc \in {"Aggregating", "Unwinding", "Finalizing", "Done"} =>
           submitted = PagesOf(doc)
    /\ (pc \in Terminal /\ openable) =>
           \A i \in PagesOf(doc) : execCount[i] = 1
    /\ pc = "Done" => \A i \in PagesOf(doc) : writeCount[i] = 1

\* a two-page run has returned
C4_Witness ==
    /\ pc = "Done"
    /\ Len(doc) = 2
    /\ \A i \in PagesOf(doc) : execCount[i] = 1 /\ writeCount[i] = 1

\* C5: the pool has max(1, units - 1) workers unless an explicit positive batch
\* size was passed, and then it has that many.
C5_BatchSizeOverrides ==
    poolSize > 0 =>
        poolSize = (IF batch_arg > 0 THEN batch_arg
                    ELSE IF units - 1 >= 1 THEN units - 1 ELSE 1)

\* C6: at most as many page tasks are being executed as the pool has workers.
C6_BoundedConcurrency == Cardinality(Running) <= workers

\* every worker is busy while a task waits in the queue
C6_Witness ==
    /\ workers >= 1
    /\ Cardinality(Running) = workers
    /\ \E i \in Idx : taskState[i] = "pending"

\* C7: once the loop has consumed the results of all N pages, in any run,
\* completed_count equals total_count and the last eta computed is 0.
C7_ProgressComplete ==
    pc \in {"Finalizing", "Done"} =>
        /\ pages_processed = total_pages
        /\ total_pages > 0 => (eta.den > 0 /\ eta.num = 0)

\* C8: every run starts with completed_count = 0 and a start time equal to
\* the time the run started.
C8_PerRunProgressState ==
    pc = "Opening" =>
        /\ pages_processed = 0
        /\ start_time = runStart

\* C9: a run on a readable zero-page document submits and executes no task,
\* makes no progress update, never fails, and returns the empty text.
C9_ZeroPages ==
    (run >= 1 /\ openable /\ Len(doc) = 0) =>
        /\ submitted = {}
        /\ \A i \in Idx : taskState[i] = "none" /\ execCount[i] = 0
        /\ progressUpdates = 0
        /\ eta = NoEta
        /\ pc \notin {"Unwinding", "Failed"}
        /\ exit_status = 0
        /\ pc = "Done" => (full_text = << >> /\ sink = << << >> >>)

\* a second run, on a zero-page document, has returned
C9_Witness ==
    /\ pc = "Done"
    /\ openable
    /\ Len(doc) = 0
    /\ run = 2
    /\ pages_processed > 0

C12_OpenFailureIsFatal ==
    (run >= 1 /\ ~openable) =>
        /\ pc \in {"Opening", "Failed"}
        /\ poolSize = 0
        /\ submitted = {}
        /\ \A i \in Idx : taskState[i] = "none" /\ execCount[i] = 0
        /\ arrival = << >>
        /\ full_text = << >>
        /\ sink = << >>
        /\ pc = "Failed" => exit_status # 0

\* a run has failed on opening its document
C12_Witness ==
    /\ pc = "Failed"
    /\ ~openable
    /\ run >= 1

\* C13: in a terminal state no handle opened during the run is still open:
\* not the controller's, not any task's.
C13_HandlesReleased ==
    pc \in Terminal =>
        /\ ctrlHandle \in {"none", "released"}
        /\ \A i \in Idx : taskHandle[i] \in {"none", "released"}

\* C14: the sink is untouched in every state of a run but Done, so in every
\* state before the final write and in every failed run; in Done it holds one
\* write, the complete text of all pages, each of them consumed and stored.
C14_NoPartialOutput ==
    /\ pc # "Done" => sink = << >>
    /\ pc = "Done" =>
          /\ sink = << TextFrom(doc, 0) >>
          /\ \A i \in PagesOf(doc) : yielded[i] /\ writeCount[i] = 1

\* a run failed after it had consumed a result, and wrote nothing
C14_Witness ==
    /\ pc = "Failed"
    /\ progressUpdates >= 1
    /\ sink = << >>

\* C15: a run that repeats the previous run (same document, same arguments),
\* which returned, returns the same text, whatever the two arrival orders.
C15_RerunSameText == (pc = "Done" /\ rerun) => full_text = prevText

\* the repeated run consumed its results out of page order, the run before
\* in page order
C15_Witness ==
    /\ pc = "Done"
    /\ rerun
    /\ Len(doc) >= 2
    /\ prevInOrder
    /\ ~InPageOrder(arrival)

\* the controller state of section 4.5 that a position of the code belongs to
CtrlState(p) == IF p = "Unwinding" THEN "Aggregating" ELSE p

Stage(p) ==
    CASE p = "Idle" -> 0 [] p = "Opening" -> 1 [] p = "Sizing" -> 2
      [] p = "Dispatching" -> 3 [] p = "Aggregating" -> 4 [] p = "Unwinding" -> 4
      [] p = "Finalizing" -> 5 [] p = "Done" -> 6 [] p = "Failed" -> 7

\* C16: within a run the controller state changes only forward along
\* Opening, Sizing, Dispatching, Aggregating, Finalizing, Done, or from a
\* non-terminal state to Failed; it never leaves Done or Failed; and it goes
\* from Aggregating to Finalizing only when completed_count = total_count.
C16_ForwardOnly ==
    [][ (run' = run /\ CtrlState(pc') # CtrlState(pc)) =>
          /\ pc \notin Terminal
          /\ pc' = "Failed" \/ (pc' # "Failed" /\ Stage(pc') > Stage(pc))
          /\ (pc = "Aggregating" /\ pc' = "Finalizing") =>
                pages_processed = total_pages ]_vars

\* C17: within a run, a step that changes the buffer or a progress value is
\* not a step of a worker (no task starts or finishes in it): it is the
\* allocation at Sizing, or one iteration of the consuming loop, which
\* takes one result, changes at most one slot and adds one to the count.
C17_SingleWriter ==
    [][ (run' = run /\ (all_text' # all_text \/ pages_processed' # pages_processed
                          \/ total_pages' # total_pages \/ eta' # eta)) =>
          /\ taskState' = taskState
          /\ execCount' = execCount
          /\ \/ pc = "Sizing"
             \/ /\ pc = "Aggregating"
                /\ Len(arrival') = Len(arrival) + 1
                /\ pages_processed' = pages_processed + 1
                /\ total_pages' = total_pages
                /\ Len(all_text') = Len(all_text)
                /\ Cardinality({k \in 1 .. Len(all_text) :
                                   all_text'[k] # all_text[k]}) <= 1 ]_vars

\* a result has been stored and counted while a worker is executing a task
C17_Witness ==
    /\ pc = "Aggregating"
    /\ progressUpdates >= 1
    /\ Running # {}

\* C18: a task being executed renders through the handle it opened itself,
\* which is open, is not the controller's, and is used by no other task
\* being executed.
C18_OwnHandle ==
    \A i \in Running :
        /\ renderVia[i] = << "task", i >>
        /\ renderVia[i] # << "ctrl" >>
        /\ taskHandle[i] = "open"
        /\ \A j \in Running \ {i} : renderVia[j] # renderVia[i]

\* two tasks are being executed at the same time
C18_Witness == Cardinality(Running) >= 2

\* C19: within a run completed_count never decreases, it increases by
\* exactly 1 in every step in which the controller takes a result from the
\* stream and in no other step, and the result taken is the one that
\* finished first among those not yet taken.
C19_CountsInArrivalOrder ==
    [][ run' = run =>
          /\ pages_processed' >= pages_processed
          /\ pages_processed' - pages_processed <= 1
          /\ (pages_processed' = pages_processed + 1) <=>
                (Len(arrival') = Len(arrival) + 1)
          /\ Len(arrival') = Len(arrival) + 1 =>
                (completion # << >> /\ arrival'[Len(arrival')] = Head(completion)) ]_vars

\* C20: under fairness every run that has started reaches Done or Failed.
C20_RunTerminates == (pc \notin ({"Idle"} \cup Terminal)) ~> (pc \in Terminal)

\* a run of two pages on a single worker is over, every task executed
C20_Witness ==
    /\ pc \in Terminal
    /\ openable
    /\ workers = 1
    /\ Len(doc) = 2
    /\ \A i \in PagesOf(doc) : execCount[i] = 1

\* the run was ended by an exception of the progress write: the loop was left
\* on a result that future.result() had returned
ProgressRaised ==
    /\ pc \in {"Unwinding", "Failed"}
    /\ arrival # << >>
    /\ taskState[arrival[Len(arrival)]] = "ok"

\* C21: the terminal state and the text of a run are determined by the
\* document and its task results alone, whatever completed_count, start time
\* and clock the run has (Done with the text of all pages exactly when the
\* document opens and no page fails), and a progress update never ends the
\* loop that consumes the results.
C21_ProgressHasNoInfluence ==
    /\ pc \in Terminal => (pc = "Done" <=> (openable /\ ~HasBadPage(doc)))
    /\ pc = "Done" => full_text = TextFrom(doc, 0)
    /\ ~ProgressRaised

TypeOK ==
    /\ pages_processed \in 0 .. (MaxRuns * MaxPages)
    /\ total_pages \in 0 .. MaxPages
    /\ pc \in {"Idle", "Opening", "Sizing", "Dispatching", "Aggregating",
               "Unwinding", "Finalizing", "Done", "Failed"}
    /\ poolSize \in 0 .. MaxUnits

====
